---- MODULE Spec2Model ----
(***************************************************************************)
(* Model of pkg/openshift/rosa/hcpvpc.go: createHostedControlPlaneVPC and  *)
(* deleteHostedControlPlaneVPC driving a terraform runner, with the        *)
(* template copy into the working directory.  Each goroutine of Calls      *)
(* performs one call; the calls interleave at every external interaction   *)
(* (runner step or file-system operation).                                 *)
(***************************************************************************)
EXTENDS Integers, Sequences, FiniteSets, TLC

VARIABLES op, args, pc, log, deferred, ret, fs

vars == <<op, args, pc, log, deferred, ret, fs>>

----------------------------------------------------------------------------
(* Bounds and input domains *)

\* longest body of a terraform output value that the runner may return
MaxLen == 2

\* the goroutines that call into the provider
Calls == {"g1", "g2"}

ClusterNames == {"", "hcp"}
Regions == {"", "us-east-1"}
WorkingDirs == {"", "/tmp/tf", "/tmp/tf2"}

\* errors the runner and the file system may report
Errs == {"exit status 1", "context canceled"}

\* bytes of the bundled asset assets/setup-hcp-vpc.tf
Asset == <<"b1", "b2">>

Quote == "\""
Chars == {Quote, "x"}

\* a nil pointer or error, and a non-nil one holding x
Nil == <<>>
Ptr(x) == <<x>>

\* no error reported by a step
NoErr == Nil

\* no call has created the file
None == "none"

----------------------------------------------------------------------------
(* Pure helpers *)

\* errors.New(msg)
ErrorsNew(msg) == <<msg>>

\* fmt.Errorf("<msg>: %v", err): the message followed by the wrapped cause
Errorf(msg, err) == <<msg>> \o err

\* faulty variant: the cause is dropped from the error
hcpVPCErrorNoCause(action, err) == [action |-> action, err |-> <<>>]

\* &hcpVPCError{action: action, err: err}
hcpVPCError(action, err) == [action |-> action, err |-> err]

\* (*hcpVPCError).Error: "<action> hcp cluster vpc failed: <cause>"
Error(h) == <<h.action, " hcp cluster vpc failed: ">> \o h.err

\* faulty variant: && in place of ||
EmptyParamsConjunction(a) ==
    a.clusterName = "" /\ a.awsRegion = "" /\ a.workingDir = ""

\* clusterName == "" || awsRegion == "" || workingDir == ""
EmptyParams(a) ==
    a.clusterName = "" \/ a.awsRegion = "" \/ a.workingDir = ""

\* tfexec.Var(fmt.Sprintf("<name>=%s", value))
Var(name, value) == <<name, "=", value>>

TfVars(a) == <<Var("aws_region", a.awsRegion), Var("cluster_name", a.clusterName)>>

\* fmt.Sprintf("%s/setup-hcp-vpc.tf", workingDir)
TemplatePath(dir) == <<dir, "/", "setup-hcp-vpc.tf">>

Paths == {TemplatePath(d) : d \in WorkingDirs \ {""}}

RECURSIVE ReplaceFirst(_)
\* faulty variant: strings.Replace(s, "\"", "", 1), only the first quote goes
ReplaceFirst(s) ==
    IF s = <<>> THEN <<>>
    ELSE IF Head(s) = Quote THEN Tail(s)
    ELSE <<Head(s)>> \o ReplaceFirst(Tail(s))

RECURSIVE StripQuotes(_)
\* strings.ReplaceAll(s, "\"", "")
StripQuotes(s) ==
    IF s = <<>> THEN <<>>
    ELSE IF Head(s) = Quote THEN StripQuotes(Tail(s))
    ELSE <<Head(s)>> \o StripQuotes(Tail(s))

OutputKeys == {"cluster-private-subnet", "cluster-public-subnet", "node-private-subnet"}

\* the value of each key carries its own digit, as 10.0.<n>.0/24 does
KeyDigit(k) ==
    CASE k = "cluster-private-subnet" -> "1"
      [] k = "cluster-public-subnet" -> "2"
      [] k = "node-private-subnet" -> "3"

Bodies == UNION {[1..n -> Chars] : n \in 0..MaxLen}

\* the output maps the runner may return: body, digit, body
Outputs == {[k \in OutputKeys |-> b \o <<KeyDigit(k)>> \o b] : b \in Bodies}

NoOutput == [k \in OutputKeys |-> <<>>]

\* the vpc struct filled from the runner's output
vpcFromOutput(output) ==
    [privateSubnet     |-> StripQuotes(output["cluster-private-subnet"]),
     publicSubnet      |-> StripQuotes(output["cluster-public-subnet"]),
     nodePrivateSubnet |-> StripQuotes(output["node-private-subnet"])]

----------------------------------------------------------------------------
(* File system *)

NoFile == [exists |-> FALSE, data |-> <<>>, creator |-> None]

\* os.Create: the file exists and is empty
Truncated(p) == [exists |-> TRUE, data |-> <<>>, creator |-> p]

Max(a, b) == IF a > b THEN a ELSE b

\* n bytes of the asset written from offset 0 over the file's data
Written(f, n) ==
    [f EXCEPT !.data = [i \in 1..Max(Len(f.data), n) |->
                           IF i <= n THEN Asset[i] ELSE f.data[i]]]

----------------------------------------------------------------------------
(* The record of one interaction with the runner or the file system *)

\* step: the operation invoked; res: "ok", "fail" or "pending"; err: the
\* error it returned (its messages, outermost first); vars: the variables passed; tmpl: the template file as
\* the step finds it in the working directory; out: the output map returned
Entry(step, res, err) ==
    [step |-> step, res |-> res, err |-> err, vars |-> <<>>,
     tmpl |-> NoFile, out |-> NoOutput]

Append1(p, e) == log' = [log EXCEPT ![p] = Append(@, e)]

SetLast(p, res, err) ==
    log' = [log EXCEPT ![p] = [@ EXCEPT ![Len(@)] = [@ EXCEPT !.res = res, !.err = err]]]

Goto(p, l) == pc' = [pc EXCEPT ![p] = l]

\* return v, e: the deferred function, when registered, runs before the
\* call completes
Return(p, v, e) ==
    /\ ret' = [ret EXCEPT ![p] = [vpc |-> v, err |-> e]]
    /\ Goto(p, IF deferred[p] THEN "deferred" ELSE "done")

----------------------------------------------------------------------------
(* Initial state: every goroutine is about to make one call *)

ArgSets == [clusterName : ClusterNames, awsRegion : Regions, workingDir : WorkingDirs]

Init ==
    /\ op \in [Calls -> {"create", "delete"}]
    /\ args \in [Calls -> ArgSets]
    /\ pc = [p \in Calls |-> "start"]
    /\ log = [p \in Calls |-> <<>>]
    /\ deferred = [p \in Calls |-> FALSE]
    /\ ret = [p \in Calls |-> [vpc |-> Nil, err |-> Nil]]
    /\ fs = [f \in Paths |-> NoFile]

----------------------------------------------------------------------------
(* Steps shared by create and delete *)

\* faulty variant: the cleanup is never deferred
DeferUninstallMissing(p) == UNCHANGED deferred

\* defer func() { _ = tf.Uninstall(ctx) }()
DeferUninstall(p) == deferred' = [deferred EXCEPT ![p] = TRUE]

\* faulty variant: the deferred function returns the error of Uninstall
RunDeferredReturnsErr(p) ==
    /\ pc[p] = "deferred"
    /\ \/ /\ Append1(p, Entry("Uninstall", "ok", NoErr))
          /\ UNCHANGED ret
       \/ \E e \in Errs :
            /\ Append1(p, Entry("Uninstall", "fail", <<e>>))
            /\ ret' = [ret EXCEPT ![p].err = Ptr(hcpVPCError(op[p], <<e>>))]
    /\ Goto(p, "done")
    /\ UNCHANGED <<op, args, deferred, fs>>

\* the deferred function: _ = tf.Uninstall(ctx), its error dropped
RunDeferred(p) ==
    /\ pc[p] = "deferred"
    /\ \/ Append1(p, Entry("Uninstall", "ok", NoErr))
       \/ \E e \in Errs : Append1(p, Entry("Uninstall", "fail", <<e>>))
    /\ Goto(p, "done")
    /\ UNCHANGED <<op, args, deferred, ret, fs>>

\* a step of the runner invoked with the given variables
Invoke(p, step, vs, res, err) ==
    Append1(p, [Entry(step, res, err) EXCEPT !.vars = vs])

\* tf.Init runs in the working directory and finds the template as it is
InvokeInit(p, res, err) ==
    Append1(p, [Entry("Init", res, err) EXCEPT
                   !.tmpl = fs[TemplatePath(args[p].workingDir)]])

----------------------------------------------------------------------------
(* copyFile("assets/setup-hcp-vpc.tf", "<workingDir>/setup-hcp-vpc.tf") *)

\* copyFile returns fmt.Errorf("<msg>: %w", err) and create wraps it
CopyFailed(p, msg, e) ==
    /\ SetLast(p, "fail", Errorf(msg, <<e>>))
    /\ Return(p, Nil, Ptr(hcpVPCError("create",
           Errorf("failed to copy terraform file to working directory",
                  Errorf(msg, <<e>>)))))

\* srcReader, err := FS.Open(srcFile)
copyFileOpen(p) ==
    /\ op[p] = "create" /\ pc[p] = "copy_open"
    /\ \/ /\ Append1(p, Entry("copyFile", "pending", NoErr))
          /\ Goto(p, "copy_create")
          /\ UNCHANGED ret
       \/ \E e \in Errs :
            /\ Append1(p, Entry("copyFile", "fail",
                   Errorf("error opening assets/setup-hcp-vpc.tf file", <<e>>)))
            /\ Return(p, Nil, Ptr(hcpVPCError("create",
                   Errorf("failed to copy terraform file to working directory",
                          Errorf("error opening assets/setup-hcp-vpc.tf file", <<e>>)))))
    /\ UNCHANGED <<op, args, deferred, fs>>

\* variant that waits until no other call is using the working directory
copyFileCreateExclusive(p) ==
    /\ op[p] = "create" /\ pc[p] = "copy_create"
    /\ \A q \in Calls \ {p} :
         args[q].workingDir = args[p].workingDir =>
            pc[q] \notin {"copy_write", "init", "plan", "apply", "output"}
    /\ fs' = [fs EXCEPT ![TemplatePath(args[p].workingDir)] = Truncated(p)]
    /\ Goto(p, "copy_write")
    /\ UNCHANGED <<op, args, log, deferred, ret>>

\* destReader, err := os.Create(destFile)
copyFileCreate(p) ==
    /\ op[p] = "create" /\ pc[p] = "copy_create"
    /\ \/ /\ fs' = [fs EXCEPT ![TemplatePath(args[p].workingDir)] = Truncated(p)]
          /\ Goto(p, "copy_write")
          /\ UNCHANGED <<log, ret>>
       \/ \E e \in Errs :
            /\ CopyFailed(p, "error creating runtime file", e)
            /\ UNCHANGED fs
    /\ UNCHANGED <<op, args, deferred>>

\* faulty variant: the error of io.Copy is ignored
copyFileCopyIgnoresShortWrite(p) ==
    /\ op[p] = "create" /\ pc[p] = "copy_write"
    /\ \E n \in 0..Len(Asset) :
         /\ fs' = [fs EXCEPT ![TemplatePath(args[p].workingDir)] = Written(@, n)]
         /\ SetLast(p, "ok", NoErr)
         /\ Goto(p, "init")
         /\ UNCHANGED ret
    /\ UNCHANGED <<op, args, deferred>>

\* _, err = io.Copy(destReader, srcReader): all of the asset is written, or
\* a part of it and an error is reported
copyFileCopy(p) ==
    /\ op[p] = "create" /\ pc[p] = "copy_write"
    /\ \E n \in 0..Len(Asset) :
         /\ fs' = [fs EXCEPT ![TemplatePath(args[p].workingDir)] = Written(@, n)]
         /\ IF n = Len(Asset)
            THEN /\ SetLast(p, "ok", NoErr)
                 /\ Goto(p, "init")
                 /\ UNCHANGED ret
            ELSE \E e \in Errs :
                   CopyFailed(p, "error copying source file to destination file", e)
    /\ UNCHANGED <<op, args, deferred>>

----------------------------------------------------------------------------
(* createHostedControlPlaneVPC *)

CreateCheckParams(p) ==
    /\ op[p] = "create" /\ pc[p] = "start"
    /\ IF EmptyParams(args[p])
       THEN Return(p, Nil, Ptr(hcpVPCError("create",
                ErrorsNew("one or more parameters is empty"))))
       ELSE Goto(p, "new") /\ UNCHANGED ret
    /\ UNCHANGED <<op, args, log, deferred, fs>>

\* tf, err := terraform.New(ctx, workingDir)
CreateNew(p) ==
    /\ op[p] = "create" /\ pc[p] = "new"
    /\ \/ /\ Invoke(p, "New", <<args[p].workingDir>>, "ok", NoErr)
          /\ Goto(p, "setenv")
          /\ UNCHANGED ret
       \/ \E e \in Errs :
            /\ Invoke(p, "New", <<args[p].workingDir>>, "fail", <<e>>)
            /\ Return(p, Nil, Ptr(hcpVPCError("create",
                   Errorf("failed to construct terraform runner", <<e>>))))
    /\ UNCHANGED <<op, args, deferred, fs>>

\* tf.SetEnvVars(r.awsCredentials.CredentialsAsMap()), then the defer
CreateSetEnvVars(p) ==
    /\ op[p] = "create" /\ pc[p] = "setenv"
    /\ \/ /\ Invoke(p, "SetEnvVars", <<>>, "ok", NoErr)
          /\ DeferUninstall(p)
          /\ Goto(p, "copy_open")
          /\ UNCHANGED ret
       \/ \E e \in Errs :
            /\ Invoke(p, "SetEnvVars", <<>>, "fail", <<e>>)
            /\ Return(p, Nil, Ptr(hcpVPCError("create",
                   Errorf("failed to set terraform runner aws credentials (env vars)", <<e>>))))
            /\ UNCHANGED deferred
    /\ UNCHANGED <<op, args, fs>>

CreateInit(p) ==
    /\ op[p] = "create" /\ pc[p] = "init"
    /\ \/ /\ InvokeInit(p, "ok", NoErr)
          /\ Goto(p, "plan")
          /\ UNCHANGED ret
       \/ \E e \in Errs :
            /\ InvokeInit(p, "fail", <<e>>)
            /\ Return(p, Nil, Ptr(hcpVPCError("create",
                   Errorf("failed to perform terraform init", <<e>>))))
    /\ UNCHANGED <<op, args, deferred, fs>>

\* faulty variant: create goes on after a failed Plan
CreatePlanIgnoresError(p) ==
    /\ op[p] = "create" /\ pc[p] = "plan"
    /\ \/ Invoke(p, "Plan", TfVars(args[p]), "ok", NoErr)
       \/ \E e \in Errs : Invoke(p, "Plan", TfVars(args[p]), "fail", <<e>>)
    /\ Goto(p, "apply")
    /\ UNCHANGED <<op, args, deferred, ret, fs>>

CreatePlan(p) ==
    /\ op[p] = "create" /\ pc[p] = "plan"
    /\ \/ /\ Invoke(p, "Plan", TfVars(args[p]), "ok", NoErr)
          /\ Goto(p, "apply")
          /\ UNCHANGED ret
       \/ \E e \in Errs :
            /\ Invoke(p, "Plan", TfVars(args[p]), "fail", <<e>>)
            /\ Return(p, Nil, Ptr(hcpVPCError("create",
                   Errorf("failed to perform terraform plan", <<e>>))))
    /\ UNCHANGED <<op, args, deferred, fs>>

\* faulty variant: create goes on after a failed Apply
CreateApplyIgnoresError(p) ==
    /\ op[p] = "create" /\ pc[p] = "apply"
    /\ \/ Invoke(p, "Apply", <<>>, "ok", NoErr)
       \/ \E e \in Errs : Invoke(p, "Apply", <<>>, "fail", <<e>>)
    /\ Goto(p, "output")
    /\ UNCHANGED <<op, args, deferred, ret, fs>>

CreateApply(p) ==
    /\ op[p] = "create" /\ pc[p] = "apply"
    /\ \/ /\ Invoke(p, "Apply", <<>>, "ok", NoErr)
          /\ Goto(p, "output")
          /\ UNCHANGED ret
       \/ \E e \in Errs :
            /\ Invoke(p, "Apply", <<>>, "fail", <<e>>)
            /\ Return(p, Nil, Ptr(hcpVPCError("create",
                   Errorf("failed to perform terraform apply", <<e>>))))
    /\ UNCHANGED <<op, args, deferred, fs>>

\* output, err := tf.Output(ctx); the vpc fields; return &vpc, err
CreateOutput(p) ==
    /\ op[p] = "create" /\ pc[p] = "output"
    /\ \/ \E o \in Outputs :
            /\ Append1(p, [Entry("Output", "ok", NoErr) EXCEPT !.out = o])
            /\ Return(p, Ptr(vpcFromOutput(o)), Nil)
       \/ \E e \in Errs :
            /\ Invoke(p, "Output", <<>>, "fail", <<e>>)
            /\ Return(p, Nil, Ptr(hcpVPCError("create",
                   Errorf("failed to perform terraform output", <<e>>))))
    /\ UNCHANGED <<op, args, deferred, fs>>

----------------------------------------------------------------------------
(* deleteHostedControlPlaneVPC *)

DeleteCheckParams(p) ==
    /\ op[p] = "delete" /\ pc[p] = "start"
    /\ IF EmptyParams(args[p])
       THEN Return(p, Nil, Ptr(hcpVPCError("delete",
                ErrorsNew("one or more parameters is empty"))))
       ELSE Goto(p, "new") /\ UNCHANGED ret
    /\ UNCHANGED <<op, args, log, deferred, fs>>

DeleteNew(p) ==
    /\ op[p] = "delete" /\ pc[p] = "new"
    /\ \/ /\ Invoke(p, "New", <<args[p].workingDir>>, "ok", NoErr)
          /\ Goto(p, "setenv")
          /\ UNCHANGED ret
       \/ \E e \in Errs :
            /\ Invoke(p, "New", <<args[p].workingDir>>, "fail", <<e>>)
            /\ Return(p, Nil, Ptr(hcpVPCError("delete",
                   Errorf("failed to construct terraform runner", <<e>>))))
    /\ UNCHANGED <<op, args, deferred, fs>>

DeleteSetEnvVars(p) ==
    /\ op[p] = "delete" /\ pc[p] = "setenv"
    /\ \/ /\ Invoke(p, "SetEnvVars", <<>>, "ok", NoErr)
          /\ DeferUninstall(p)
          /\ Goto(p, "init")
          /\ UNCHANGED ret
       \/ \E e \in Errs :
            /\ Invoke(p, "SetEnvVars", <<>>, "fail", <<e>>)
            /\ Return(p, Nil, Ptr(hcpVPCError("delete",
                   Errorf("failed to set terraform runner aws credentials (env vars)", <<e>>))))
            /\ UNCHANGED deferred
    /\ UNCHANGED <<op, args, fs>>

\* faulty variant: delete goes on after a failed Init
DeleteInitIgnoresError(p) ==
    /\ op[p] = "delete" /\ pc[p] = "init"
    /\ \/ InvokeInit(p, "ok", NoErr)
       \/ \E e \in Errs : InvokeInit(p, "fail", <<e>>)
    /\ Goto(p, "destroy")
    /\ UNCHANGED <<op, args, deferred, ret, fs>>

DeleteInit(p) ==
    /\ op[p] = "delete" /\ pc[p] = "init"
    /\ \/ /\ InvokeInit(p, "ok", NoErr)
          /\ Goto(p, "destroy")
          /\ UNCHANGED ret
       \/ \E e \in Errs :
            /\ InvokeInit(p, "fail", <<e>>)
            /\ Return(p, Nil, Ptr(hcpVPCError("delete",
                   Errorf("failed to perform terraform init", <<e>>))))
    /\ UNCHANGED <<op, args, deferred, fs>>

\* err = tf.Destroy(ctx, vars...); return err
DeleteDestroy(p) ==
    /\ op[p] = "delete" /\ pc[p] = "destroy"
    /\ \/ /\ Invoke(p, "Destroy", TfVars(args[p]), "ok", NoErr)
          /\ Return(p, Nil, Nil)
       \/ \E e \in Errs :
            /\ Invoke(p, "Destroy", TfVars(args[p]), "fail", <<e>>)
            /\ Return(p, Nil, Ptr(hcpVPCError("delete",
                   Errorf("failed to perform terraform destroy", <<e>>))))
    /\ UNCHANGED <<op, args, deferred, fs>>

----------------------------------------------------------------------------
(* Specification *)

\* the next statement of call p
Step(p) ==
    \/ CreateCheckParams(p) \/ CreateNew(p) \/ CreateSetEnvVars(p)
    \/ copyFileOpen(p) \/ copyFileCreate(p) \/ copyFileCopy(p)
    \/ CreateInit(p) \/ CreatePlan(p) \/ CreateApply(p) \/ CreateOutput(p)
    \/ DeleteCheckParams(p) \/ DeleteNew(p) \/ DeleteSetEnvVars(p)
    \/ DeleteInit(p) \/ DeleteDestroy(p)
    \/ RunDeferred(p)

Next == \E p \in Calls : Step(p)

Spec == Init /\ [][Next]_vars

----------------------------------------------------------------------------
(* Vocabulary of the properties *)

Done(p) == pc[p] = "done"

\* the call has executed its return statement
Returned(p) == pc[p] \in {"deferred", "done"}

AnyEmpty(p) == \E f \in {"clusterName", "awsRegion", "workingDir"} : args[p][f] = ""

Count(p, s) == Cardinality({i \in DOMAIN log[p] : log[p][i].step = s})

\* the interactions of call p other than the cleanup
Main(p) == SelectSeq(log[p], LAMBDA e : e.step # "Uninstall")

MainSteps(p) == [i \in 1..Len(Main(p)) |-> Main(p)[i].step]

IsPrefix(s, t) == Len(s) <= Len(t) /\ \A i \in 1..Len(s) : s[i] = t[i]

Failed(p) == \E i \in DOMAIN log[p] : log[p][i].step # "Uninstall" /\ log[p][i].res = "fail"

StepOk(p, s) == \E i \in DOMAIN log[p] : log[p][i].step = s /\ log[p][i].res = "ok"

StepFailed(p, s) == \E i \in DOMAIN log[p] : log[p][i].step = s /\ log[p][i].res = "fail"

\* every interaction but the last has succeeded, and the cleanup comes last
StopsAtFirstFailure(p) ==
    /\ \A i \in 1..(Len(Main(p)) - 1) : Main(p)[i].res = "ok"
    /\ \A i \in DOMAIN log[p] : log[p][i].step = "Uninstall" => i = Len(log[p])

CreateSeq == <<"New", "SetEnvVars", "copyFile", "Init", "Plan", "Apply", "Output">>

DeleteSeq == <<"New", "SetEnvVars", "Init", "Destroy">>

FailureMessage(step) ==
    CASE step = "New" -> "failed to construct terraform runner"
      [] step = "SetEnvVars" -> "failed to set terraform runner aws credentials (env vars)"
      [] step = "copyFile" -> "failed to copy terraform file to working directory"
      [] step = "Init" -> "failed to perform terraform init"
      [] step = "Plan" -> "failed to perform terraform plan"
      [] step = "Apply" -> "failed to perform terraform apply"
      [] step = "Output" -> "failed to perform terraform output"
      [] step = "Destroy" -> "failed to perform terraform destroy"

\* the returned error is tagged with the action and carries the message of
\* the failed step e and the error that step reported
TaggedWith(p, action, e) ==
    /\ Len(ret[p].err) = 1
    /\ ret[p].err[1].action = action
    /\ e.err # <<>>
    /\ ret[p].err[1].err = <<FailureMessage(e.step)>> \o e.err

EmptyParamsError(action) ==
    <<[action |-> action, err |-> <<"one or more parameters is empty">>]>>

----------------------------------------------------------------------------
(* C1 *)

\* C1 as stated: every completed call, whatever its exit path, has invoked
\* Uninstall exactly once.
C1_UninstallOnEveryExit ==
    \A p \in Calls : Done(p) => Count(p, "Uninstall") = 1

\* C1 amended: Uninstall is never invoked twice; a completed call has
\* invoked it exactly once when SetEnvVars succeeded (whatever happened
\* afterwards) and not at all when the call ended at the empty-argument
\* check, at the runner construction or at SetEnvVars.
C1_UninstallOnceAfterSetEnvVars ==
    \A p \in Calls :
        /\ Count(p, "Uninstall") <= 1
        /\ Done(p) => Count(p, "Uninstall") = (IF StepOk(p, "SetEnvVars") THEN 1 ELSE 0)

C1_Witness ==
    \E p, q \in Calls :
        /\ Done(p) /\ StepOk(p, "SetEnvVars") /\ Failed(p) /\ Count(p, "Uninstall") = 1
        /\ Done(q) /\ StepFailed(q, "SetEnvVars") /\ Count(q, "Uninstall") = 0

----------------------------------------------------------------------------
(* C2 *)

\* C2: a call with an empty clusterName, awsRegion or workingDir returns the
\* error tagged with its action whose cause is "one or more parameters is
\* empty", and has interacted with nothing: no runner step, no copy, no file
\* created by it.
C2_EmptyParamsRejected ==
    \A p \in Calls :
        AnyEmpty(p) =>
            /\ log[p] = <<>>
            /\ \A f \in Paths : fs[f].creator # p
            /\ pc[p] \in {"start", "done"}
            /\ Done(p) =>
                 /\ ret[p] = [vpc |-> Nil, err |-> EmptyParamsError(op[p])]
                 /\ Error(ret[p].err[1]) = <<op[p], " hcp cluster vpc failed: ",
                                             "one or more parameters is empty">>

C2_Witness ==
    \E p, q \in Calls :
        /\ op[p] = "create" /\ Done(p) /\ args[p].clusterName # "" /\ args[p].workingDir = ""
        /\ op[q] = "delete" /\ Done(q) /\ args[q].awsRegion = "" /\ args[q].workingDir # ""
        /\ ret[p].err = EmptyParamsError("create")
        /\ ret[q].err = EmptyParamsError("delete")

----------------------------------------------------------------------------
(* C3 *)

\* C3: the steps a create call has invoked are a prefix of New, SetEnvVars,
\* copyFile, Init, Plan, Apply, Output in that order, every step before the
\* last invoked one has succeeded, and a completed call has either a failed
\* last step or the whole sequence.
C3_CreateOrder ==
    \A p \in Calls :
        op[p] = "create" /\ ~AnyEmpty(p) =>
            /\ IsPrefix(MainSteps(p), CreateSeq)
            /\ StopsAtFirstFailure(p)
            /\ Returned(p) => \/ Main(p)[Len(Main(p))].res = "fail"
                              \/ MainSteps(p) = CreateSeq

C3_Witness ==
    \E p, q \in Calls :
        /\ op[p] = "create" /\ Done(p) /\ MainSteps(p) = CreateSeq /\ ~Failed(p)
        /\ op[q] = "create" /\ Done(q) /\ StepFailed(q, "Plan")

----------------------------------------------------------------------------
(* C4 *)

\* C4: a create call one of whose steps failed returns a nil vpc and an
\* error tagged "create" carrying that step's message and cause; no step is
\* invoked twice and Destroy is never invoked by create.
C4_CreateFailure ==
    \A p \in Calls :
        op[p] = "create" =>
            /\ \A s \in {"New", "SetEnvVars", "copyFile", "Init", "Plan", "Apply",
                         "Output", "Uninstall"} : Count(p, s) <= 1
            /\ Count(p, "Destroy") = 0
            /\ \A i \in DOMAIN log[p] :
                 log[p][i].step # "Uninstall" /\ log[p][i].res = "fail" =>
                    /\ Returned(p)
                    /\ ret[p].vpc = Nil
                    /\ TaggedWith(p, "create", log[p][i])

C4_Witness ==
    \E p \in Calls :
        /\ op[p] = "create" /\ Done(p)
        /\ StepOk(p, "Apply") /\ StepFailed(p, "Output")
        /\ Count(p, "Destroy") = 0

----------------------------------------------------------------------------
(* C5 *)

\* C5: when Apply fails in create, Output is not invoked, the call returns
\* the error tagged "create" with Apply's failure, and the completed call
\* has invoked Uninstall exactly once.
C5_ApplyFailure ==
    \A p \in Calls :
        \A i \in DOMAIN log[p] :
            op[p] = "create" /\ log[p][i].step = "Apply" /\ log[p][i].res = "fail" =>
                /\ Count(p, "Output") = 0
                /\ Returned(p)
                /\ TaggedWith(p, "create", log[p][i])
                /\ Done(p) => Count(p, "Uninstall") = 1

C5_Witness ==
    \E p \in Calls :
        op[p] = "create" /\ Done(p) /\ StepFailed(p, "Apply") /\ Count(p, "Uninstall") = 1

----------------------------------------------------------------------------
(* C6 *)

\* what the steps other than the cleanup did in call p
Outcomes(p) ==
    [i \in 1..Len(Main(p)) |->
        [step |-> Main(p)[i].step, res |-> Main(p)[i].res,
         err |-> Main(p)[i].err, out |-> Main(p)[i].out]]

UninstallResult(p) == log[p][Len(log[p])].res

\* C6: two completed calls of the same operation with the same arguments
\* and the same outcomes of every step other than Uninstall return the same
\* vpc and error, whatever Uninstall did in each; a completed call none of
\* whose other steps failed returns a nil error.
C6_UninstallResultDropped ==
    /\ \A p, q \in Calls :
         /\ Done(p) /\ Done(q)
         /\ op[p] = op[q] /\ args[p] = args[q]
         /\ Outcomes(p) = Outcomes(q)
         => ret[p] = ret[q]
    /\ \A p \in Calls :
         Done(p) /\ ~AnyEmpty(p) /\ ~Failed(p) => ret[p].err = Nil

C6_Witness ==
    \E p, q \in Calls :
        /\ Done(p) /\ Done(q)
        /\ op[p] = op[q] /\ args[p] = args[q]
        /\ Outcomes(p) = Outcomes(q)
        /\ ~Failed(p)
        /\ Count(p, "Uninstall") = 1 /\ Count(q, "Uninstall") = 1
        /\ UninstallResult(p) = "ok" /\ UninstallResult(q) = "fail"
        /\ ret[p].err = Nil /\ ret[q].err = Nil

----------------------------------------------------------------------------
(* C7 *)

\* C7: the steps a delete call has invoked are a prefix of New, SetEnvVars,
\* Init, Destroy in that order, each after the success of the one before;
\* Destroy is given the region and the cluster name of the call; a failed
\* step makes the call return the error tagged "delete" with that step's
\* cause, and the call returns a nil error exactly when all four succeeded.
C7_DeleteOrder ==
    \A p \in Calls :
        op[p] = "delete" /\ ~AnyEmpty(p) =>
            /\ IsPrefix(MainSteps(p), DeleteSeq)
            /\ StopsAtFirstFailure(p)
            /\ \A i \in DOMAIN log[p] :
                 /\ log[p][i].step = "Destroy" =>
                        log[p][i].vars = << <<"aws_region", "=", args[p].awsRegion>>,
                                            <<"cluster_name", "=", args[p].clusterName>> >>
                 /\ log[p][i].step # "Uninstall" /\ log[p][i].res = "fail" =>
                        Returned(p) /\ TaggedWith(p, "delete", log[p][i])
            /\ Returned(p) =>
                 (ret[p].err = Nil <=>
                    /\ MainSteps(p) = DeleteSeq
                    /\ \A i \in 1..Len(Main(p)) : Main(p)[i].res = "ok")

C7_Witness ==
    \E p, q \in Calls :
        /\ op[p] = "delete" /\ Done(p) /\ StepOk(p, "Init") /\ StepFailed(p, "Destroy")
        /\ op[q] = "delete" /\ Done(q) /\ StepOk(q, "Destroy") /\ ret[q].err = Nil

----------------------------------------------------------------------------
(* C8 *)

\* in create, a failed copy is the last step and the call returns its error
CopyFailureEndsCreate(p) ==
    \A i \in DOMAIN log[p] :
        log[p][i].step = "copyFile" /\ log[p][i].res = "fail" =>
            /\ Count(p, "Init") = 0
            /\ Returned(p)
            /\ TaggedWith(p, "create", log[p][i])

\* C8 as stated: whenever a create call invokes Init, the template file
\* exists in its working directory with the content of the asset; a failed
\* copy means no Init and the "create" error.
C8_TemplateIdenticalAtInit ==
    \A p \in Calls :
        op[p] = "create" =>
            /\ \A i \in DOMAIN log[p] :
                 log[p][i].step = "Init" =>
                    log[p][i].tmpl.exists /\ log[p][i].tmpl.data = Asset
            /\ CopyFailureEndsCreate(p)

\* C8 amended: whenever a create call invokes Init, its own copy of the
\* template has completed successfully and the file exists; the file holds
\* the content of the asset unless another call has created the same file
\* again since; a failed copy means no Init and the "create" error.
C8_TemplateCopiedBeforeInit ==
    \A p \in Calls :
        op[p] = "create" =>
            /\ \A i \in DOMAIN log[p] :
                 log[p][i].step = "Init" =>
                    /\ \E j \in 1..(i - 1) :
                         log[p][j].step = "copyFile" /\ log[p][j].res = "ok"
                    /\ log[p][i].tmpl.exists
                    /\ log[p][i].tmpl.creator = p => log[p][i].tmpl.data = Asset
            /\ CopyFailureEndsCreate(p)

C8_Witness ==
    \E p \in Calls :
        /\ op[p] = "create"
        /\ \E i \in DOMAIN log[p] :
             /\ log[p][i].step = "Init"
             /\ log[p][i].tmpl.creator = p
             /\ log[p][i].tmpl.data = Asset
        /\ \E q \in Calls : op[q] = "create" /\ StepFailed(q, "copyFile") /\ Count(q, "Init") = 0

----------------------------------------------------------------------------
(* C9 *)

NoQuotes(s) == SelectSeq(s, LAMBDA c : c # Quote)

\* C9: a create call all of whose steps succeeded returns a nil error and a
\* vpc whose three fields are the output values of cluster-private-subnet,
\* cluster-public-subnet and node-private-subnet, each without any quote.
C9_TopologyUnquoted ==
    \A p \in Calls :
        op[p] = "create" /\ Returned(p) /\ StepOk(p, "Output") =>
            LET out == Main(p)[Len(Main(p))].out IN
            /\ ret[p].err = Nil
            /\ Len(ret[p].vpc) = 1
            /\ ret[p].vpc[1].privateSubnet = NoQuotes(out["cluster-private-subnet"])
            /\ ret[p].vpc[1].publicSubnet = NoQuotes(out["cluster-public-subnet"])
            /\ ret[p].vpc[1].nodePrivateSubnet = NoQuotes(out["node-private-subnet"])
            /\ \A f \in {"privateSubnet", "publicSubnet", "nodePrivateSubnet"} :
                 \A i \in DOMAIN ret[p].vpc[1][f] : ret[p].vpc[1][f][i] # Quote

C9_Witness ==
    \E p \in Calls :
        /\ op[p] = "create" /\ Done(p) /\ StepOk(p, "Output")
        /\ Main(p)[Len(Main(p))].out["cluster-public-subnet"] = <<Quote, "x", "2", Quote, "x">>
        /\ ret[p].vpc = <<[privateSubnet |-> <<"x", "1", "x">>,
                           publicSubnet |-> <<"x", "2", "x">>,
                           nodePrivateSubnet |-> <<"x", "3", "x">>]>>

----------------------------------------------------------------------------
(* C10 *)

\* C10: no call ever waits for another: whatever the other calls are doing
\* in the same working directory, a call that has not completed can take its
\* next step.
C10_NoGuard ==
    \A p \in Calls : ~Done(p) => ENABLED Step(p)

\* call q has created the template file again after call p's Init found it
\* complete and before p's Apply
C10_Witness ==
    \E p, q \in Calls :
        /\ p # q
        /\ op[p] = "create" /\ op[q] = "create"
        /\ args[p].workingDir = args[q].workingDir
        /\ pc[p] \in {"plan", "apply"}
        /\ Main(p)[Len(Main(p))].step \in {"Init", "Plan"}
        /\ \E i \in DOMAIN log[p] :
             log[p][i].step = "Init" /\ log[p][i].tmpl.data = Asset
        /\ fs[TemplatePath(args[p].workingDir)].creator = q
        /\ fs[TemplatePath(args[p].workingDir)].data # Asset

====
